---- MODULE Spec2Model ----
(***************************************************************************)
(* Model of DendriticMLP (dendritic_mlp.py): construction of the layers,   *)
(* forward, and the hardcoding of dendritic segment weights                *)
(* (_hardcode_dendritic_weights).                                          *)
(*                                                                         *)
(* Weights and context entries are held in hundredths: 1.0 is 100, -1 is   *)
(* -100, -0.95 is -95.  Tensors are functions over 0-based index ranges,   *)
(* as in the source.  All tensors have torch's default dtype, so copying a *)
(* row of context_vectors into the weights keeps its entries, and the sums  *)
(* the code forms (-1 + 1, -1 + 0) are exact.                               *)
(***************************************************************************)
EXTENDS Integers, Sequences, FiniteSets, TLC

\* ------------------------------------------------------------------ bounds
\* Number of hidden units of the layer hardcoded with init = "overlapping"
\* (20 is the smallest size for which int(0.05 * num_units) is not 0).
OvUnits == 20
\* Largest number of hidden units of a layer hardcoded with "non_overlapping".
MaxUnits == 3
\* Largest number of dendritic segments per unit.
MaxSegments == 2
\* Largest number of context vectors (rows of context_vectors).
MaxContexts == 2
\* Largest number of hidden layers.
MaxHidden == 2
\* Largest number of output heads given as an iterable.
MaxHeads == 2

\* ------------------------------------------------------- hardcoding: state
VARIABLES
    init,                  \* the init argument
    num_units,             \* dendrite_weights.size(): units
    num_segments,          \*                          segments per unit
    dim_context,           \*                          entries per segment
    shape2d,               \* len(dendrite_weights.shape) == 2 on entry
    context_vectors,       \* [0..num_contexts-1 -> row]
    num_contexts,          \* context_vectors.size()[0]
    squeeze,               \* local flag of _hardcode_dendritic_weights
    new_dendritic_weights, \* local tensor [unit -> [segment -> row]]
    num_contexts_chosen,   \* local dict unit -> number of hardcoded segments
    c,                     \* loop index over contexts ("overlapping")
    i,                     \* loop index over units ("non_overlapping")
    dendrite_weights,      \* the layer's weight data, in its own shape
    pc                     \* position in _hardcode_dendritic_weights

hvars == <<init, num_units, num_segments, dim_context, shape2d, context_vectors,
           num_contexts, squeeze, new_dendritic_weights, num_contexts_chosen,
           c, i, dendrite_weights, pc>>

\* ------------------------------------------- construction and forward: state
VARIABLES
    kw_arg,              \* the kw argument of __init__
    kw_percent_on,       \* [none, v]: None, or v hundredths
    hidden_sizes,        \* sequence of layer sizes (layer i of the source is i + 1)
    output_size,         \* [iterable, sizes]: an integer n is sizes = <<n>>
    weight_init,
    dendrite_init,
    self_num_segments,   \* self.num_segments
    has_nonlinearity,    \* output_nonlinearity is not None
    self_kw,             \* self.kw
    layer_class,         \* dendritic_layer_class after lines 110-112
    layers,              \* self._layers
    activations,         \* self._activations
    output_layers,       \* self._output_layers
    single_output_head,  \* self._single_output_head
    input_size,          \* the local input_size of __init__
    context_given,       \* forward's context is not None
    x,                   \* forward's x: the modules applied to the input so far
    pos,                 \* position of forward's loop over zip(layers, activations)
    result,              \* what forward returns
    mpc                  \* position in __init__ / forward

mvars == <<kw_arg, kw_percent_on, hidden_sizes, output_size, weight_init,
           dendrite_init, self_num_segments, has_nonlinearity, self_kw,
           layer_class, layers, activations, output_layers, single_output_head,
           input_size, context_given, x, pos, result, mpc>>

vars == <<hvars, mvars>>

\* -------------------------------------------------------- hardcoding: data
\* Sizes of a context vector.  "overlapping" copies whole rows of
\* context_vectors and never looks inside one; "non_overlapping" reads a row
\* entry by entry.
ContextSizes(how) == IF how = "overlapping" THEN {1} ELSE {1, 2}

\* Entries a context vector may hold: a negative one (equal to the filler of
\* line 284), zero and a positive one.
CtxVals == {-95, 0, 100}

Units == 0 .. (num_units - 1)
Segments == 0 .. (num_segments - 1)
Dims == 0 .. (dim_context - 1)
Contexts == 0 .. (num_contexts - 1)

\* torch.ones / torch.zeros scaled: a (units, segments, dim) tensor of v.
Full(v) == [u \in Units |-> [s \in Segments |-> [j \in Dims |-> v]]]

\* -0.95 * torch.ones(...), line 284.
OverlappingFill == -95

\* k = int(0.05 * num_units), line 288.  For every n below 100000 the double
\* product 0.05 * n truncates to the integer quotient of n by 20.
SelectedCount(n) == (5 * n) \div 100

\* torch.randperm(n)[:k], line 297: k distinct units; the sets of k units.
RECURSIVE FirstOfPerm(_, _)
FirstOfPerm(S, k) ==
    IF k = 0 THEN {{}}
    ELSE UNION {{T \cup {u} : T \in FirstOfPerm(S \ {u}, k - 1)} : u \in S}

\* SelectUnit without the skip of lines 304-305: a full unit has its last
\* segment overwritten.
SelectUnitOverwriting(w, chosen, u, cc) ==
    LET segment_id == IF chosen[u] = num_segments THEN num_segments - 1
                      ELSE chosen[u]
    IN  <<[w EXCEPT ![u][segment_id] = context_vectors[cc]],
          [chosen EXCEPT ![u] = IF @ = num_segments THEN @ ELSE @ + 1]>>

\* Lines 303-308 for one selected unit u and context cc: the pair
\* <<weights, chosen>> after the body of the inner loop.
SelectUnit(w, chosen, u, cc) ==
    LET segment_id == chosen[u]
    IN  IF segment_id = num_segments
        THEN <<w, chosen>>
        ELSE <<[w EXCEPT ![u][segment_id] = context_vectors[cc]],
               [chosen EXCEPT ![u] = @ + 1]>>

\* Lines 298-308: the inner loop over selected_units (distinct units, so the
\* order in which they are visited does not change the result).
RECURSIVE SelectUnits(_, _, _, _)
SelectUnits(w, chosen, selected, cc) ==
    IF selected = {} THEN <<w, chosen>>
    ELSE LET u == CHOOSE a \in selected : \A b \in selected : a <= b
             r == SelectUnit(w, chosen, u, cc)
         IN  SelectUnits(r[1], r[2], selected \ {u}, cc)

\* RecognizeContext without line 317: the other segments stay at -1.
RecognizeContextNoAdd(w, u, v) ==
    [w EXCEPT ![u] = [s \in Segments |->
                        IF s >= 1 THEN [j \in Dims |-> -100]
                        ELSE [j \in Dims |-> IF v[j] > 0 THEN 100 ELSE 0]]]

\* Lines 315-317 for unit u and the first row v of the permuted contexts.
RecognizeContext(w, u, v) ==
    LET first == [j \in Dims |-> IF v[j] > 0 THEN 100 ELSE 0]
        w1 == [w EXCEPT ![u] = [s \in Segments |-> first]]
        w2 == [w1 EXCEPT ![u] = [s \in Segments |->
                                   IF s >= 1 THEN [j \in Dims |-> -100]
                                   ELSE w1[u][s]]]
    IN  [w2 EXCEPT ![u] = [s \in Segments |->
                             IF s >= 1
                             THEN [j \in Dims |-> w2[u][s][j] + w2[u][0][j]]
                             ELSE w2[u][s]]]

\* Lines 323-329: the data stored back in the layer: squeezed to
\* (units, dim) when the weights came in with two dimensions.
Stored(w) == IF squeeze THEN [u \in Units |-> w[u][0]] ELSE w

\* Segment s of unit u of the layer's weights, whatever their shape.
SegmentOf(u, s) == IF shape2d THEN dendrite_weights[u] ELSE dendrite_weights[u][s]

\* ----------------------------------------------------- hardcoding: actions
\* No DendriticMLP under construction.
NoModel ==
    /\ kw_arg = FALSE
    /\ kw_percent_on = [none |-> TRUE, v |-> 0]
    /\ hidden_sizes = <<>>
    /\ output_size = [iterable |-> TRUE, sizes |-> <<>>]
    /\ weight_init = "modified"
    /\ dendrite_init = "modified"
    /\ self_num_segments = 0
    /\ has_nonlinearity = FALSE
    /\ self_kw = FALSE
    /\ layer_class = "AbsoluteMaxGatingDendriticLayer"
    /\ layers = <<>>
    /\ activations = <<>>
    /\ output_layers = <<>>
    /\ single_output_head = FALSE
    /\ input_size = 0
    /\ context_given = FALSE
    /\ x = <<>>
    /\ pos = 0
    /\ result = <<>>
    /\ mpc = "idle"

\* A call of _hardcode_dendritic_weights: the init string, the weights of
\* one dendritic layer (two-dimensional only with one segment per unit) and
\* the context vectors.
HardcodeInit ==
    /\ init \in {"overlapping", "non_overlapping", "other"}
    /\ num_units \in (IF init = "overlapping" THEN {1, OvUnits, 2 * OvUnits}
                      ELSE 1 .. MaxUnits)
    /\ num_segments \in 1 .. MaxSegments
    /\ dim_context \in ContextSizes(init)
    /\ shape2d \in (IF num_segments = 1 THEN BOOLEAN ELSE {FALSE})
    \* the layer of 2 * OvUnits units (two units per context) is hardcoded for
    \* at most one context
    /\ num_contexts \in (IF num_units > OvUnits THEN 0 .. 1 ELSE 0 .. MaxContexts)
    /\ context_vectors \in [Contexts -> [Dims -> CtxVals]]
    /\ squeeze = FALSE
    /\ new_dendritic_weights = Full(0)
    /\ num_contexts_chosen = [u \in Units |-> 0]
    /\ c = 0
    /\ i = 0
    /\ dendrite_weights = (IF shape2d THEN [u \in Units |-> [j \in Dims |-> 50]]
                           ELSE Full(50))
    /\ pc = "begin"
    /\ NoModel

\* Lines 273-292, 310-311, 320-321.
Begin ==
    /\ pc = "begin"
    /\ squeeze' = shape2d
    /\ IF init = "overlapping"
       THEN /\ new_dendritic_weights' = Full(OverlappingFill)
            /\ num_contexts_chosen' = [u \in Units |-> 0]
            /\ pc' = "overlapping"
       ELSE IF init = "non_overlapping"
       THEN /\ new_dendritic_weights' = Full(0)
            /\ pc' = "non_overlapping"
            /\ UNCHANGED num_contexts_chosen
       ELSE /\ pc' = "raised"
            /\ UNCHANGED <<new_dendritic_weights, num_contexts_chosen>>
    /\ UNCHANGED <<init, num_units, num_segments, dim_context, shape2d,
                   context_vectors, num_contexts, c, i, dendrite_weights>>
    /\ UNCHANGED mvars

\* Lines 294-308: one iteration of the loop over contexts.
OverlappingContext ==
    /\ pc = "overlapping"
    /\ c < num_contexts
    /\ \E selected_units \in FirstOfPerm(Units, SelectedCount(num_units)) :
          LET r == SelectUnits(new_dendritic_weights, num_contexts_chosen,
                               selected_units, c)
          IN  /\ new_dendritic_weights' = r[1]
              /\ num_contexts_chosen' = r[2]
    /\ c' = c + 1
    /\ UNCHANGED <<init, num_units, num_segments, dim_context, shape2d,
                   context_vectors, num_contexts, squeeze, i, dendrite_weights,
                   pc>>
    /\ UNCHANGED mvars

\* Lines 313-318: one iteration of the loop over units.  Row 0 of an empty
\* permutation of the contexts does not exist: the index raises.
NonOverlappingUnit ==
    /\ pc = "non_overlapping"
    /\ i < num_units
    /\ IF num_contexts = 0
       THEN /\ pc' = "raised"
            /\ UNCHANGED <<new_dendritic_weights, i>>
       ELSE /\ \E first \in Contexts :
                  new_dendritic_weights' =
                      RecognizeContext(new_dendritic_weights, i,
                                       context_vectors[first])
            /\ i' = i + 1
            /\ pc' = pc
    /\ UNCHANGED <<init, num_units, num_segments, dim_context, shape2d,
                   context_vectors, num_contexts, squeeze, num_contexts_chosen,
                   c, dendrite_weights>>
    /\ UNCHANGED mvars

\* Lines 323-329, taken when either loop has run out.
StoreWeights ==
    /\ \/ pc = "overlapping" /\ c = num_contexts
       \/ pc = "non_overlapping" /\ i = num_units
    /\ dendrite_weights' = Stored(new_dendritic_weights)
    /\ pc' = "done"
    /\ UNCHANGED <<init, num_units, num_segments, dim_context, shape2d,
                   context_vectors, num_contexts, squeeze, new_dendritic_weights,
                   num_contexts_chosen, c, i>>
    /\ UNCHANGED mvars

HardcodeNext == Begin \/ OverlappingContext \/ NonOverlappingUnit \/ StoreWeights

SpecHardcode == HardcodeInit /\ [][HardcodeNext]_vars

\* ------------------------------------------------------ hardcoding: claims
Finished(how) == pc = "done" /\ init = how

\* The units that hold, in some segment, the row cc of context_vectors.
UnitsWith(cc) ==
    {u \in Units : \E s \in Segments : SegmentOf(u, s) = context_vectors[cc]}

\* The rows of context_vectors equal to row cc (row cc included).
SameRows(cc) == {c2 \in Contexts : context_vectors[c2] = context_vectors[cc]}

\* Row cc is the row "overlapping" fills every segment with at the start.
IsFillRow(cc) == \A j \in Dims : context_vectors[cc][j] = OverlappingFill

\* The rows of context_vectors differ from each other and from the fill row:
\* a segment then equals row cc only if context cc wrote it.
RowsTellContextsApart ==
    /\ \A c1, c2 \in Contexts : c1 # c2 => context_vectors[c1] # context_vectors[c2]
    /\ \A cc \in Contexts : ~IsFillRow(cc)

C2_UnassignedSegmentsAreMinusOne ==
    Finished("overlapping") =>
        \A u \in Units : \A s \in Segments :
            s >= num_contexts_chosen[u] =>
                \A j \in Dims : SegmentOf(u, s)[j] = -100

\* C3: after "non_overlapping", every unit has a row v of context_vectors
\* such that its segment 0 is 1 (here 100) exactly where v is positive and 0
\* elsewhere, and each other segment is 0 where segment 0 is 1 and -1 (here
\* -100) where segment 0 is 0.
C3_UnitRecognizesOneContext ==
    Finished("non_overlapping") =>
        \A u \in Units :
            /\ \E cc \in Contexts : \A j \in Dims :
                   SegmentOf(u, 0)[j] =
                       (IF context_vectors[cc][j] > 0 THEN 100 ELSE 0)
            /\ \A s \in Segments : s >= 1 =>
                   \A j \in Dims :
                       SegmentOf(u, s)[j] =
                           (IF SegmentOf(u, 0)[j] = 100 THEN 0 ELSE -100)

\* C3 witness: a finished "non_overlapping" run with several segments, in
\* which two units recognize different contexts and some first segment has
\* both a 1 and a 0.
C3_Witness ==
    /\ Finished("non_overlapping")
    /\ num_segments >= 2
    /\ \E u1, u2 \in Units : SegmentOf(u1, 0) # SegmentOf(u2, 0)
    /\ \E u \in Units : \E j1, j2 \in Dims :
          SegmentOf(u, 0)[j1] = 100 /\ SegmentOf(u, 0)[j2] = 0

\* -------------------------------------------- construction and forward: data
\* No layer being hardcoded.
NoHardcoding ==
    /\ init = "other"
    /\ num_units = 0
    /\ num_segments = 0
    /\ dim_context = 0
    /\ shape2d = FALSE
    /\ context_vectors = <<>>
    /\ num_contexts = 0
    /\ squeeze = FALSE
    /\ new_dendritic_weights = <<>>
    /\ num_contexts_chosen = <<>>
    /\ c = 0
    /\ i = 0
    /\ dendrite_weights = <<>>
    /\ pc = "idle"

\* The sequences over S of length at most len.
SeqsUpTo(S, len) == UNION {[1 .. m -> S] : m \in 0 .. len}

\* Layer sizes and head sizes the model is built with.
HiddenSizeVals == {4, 8}
OutputSizeVals == {2, 3}

\* kw_percent_on: None, 0.0, 0.05 and 1.0 (refused by line 102).
PercentVals ==
    {[none |-> TRUE, v |-> 0], [none |-> FALSE, v |-> 0],
     [none |-> FALSE, v |-> 5], [none |-> FALSE, v |-> 100]}

\* The assertions of lines 100-103 (context_percent_on is left at its default).
ArgumentsAccepted ==
    /\ weight_init \in {"kaiming", "modified"}
    /\ dendrite_init \in {"kaiming", "modified"}
    /\ kw_percent_on.none \/ (kw_percent_on.v >= 0 /\ kw_percent_on.v < 100)

\* The kw argument with lines 105-106 skipped.
KwAsGiven(kw, percent) == kw

\* Lines 105-106: the value of kw after `if kw_percent_on == 0.0: kw = False`
\* (None == 0.0 is false).
KwAfterOverride(kw, percent) ==
    IF ~percent.none /\ percent.v = 0 THEN FALSE ELSE kw

\* `1 - kw_percent_on if kw else 0.0` (lines 161, 198) raises a TypeError
\* when kw is true and kw_percent_on is None.
InputSparsityRaises == self_kw /\ kw_percent_on.none

\* Lines 173-180: the activation that follows the layer of `size` units.
\* KWinners is handed kw_percent_on as it is, None included.
Activation(size) ==
    IF self_kw
    THEN [kind |-> "KWinners", n |-> size, percent_on |-> kw_percent_on]
    ELSE [kind |-> "ReLU", n |-> 0, percent_on |-> [none |-> TRUE, v |-> 0]]

\* Lines 144-150: the dendritic layer number k, around nn.Linear(fan_in, size).
DendriticLayer(k, fan_in, size) ==
    [cls |-> layer_class, index |-> k, in_features |-> fan_in,
     out_features |-> size, layer_segments |-> self_num_segments]

\* Lines 193-203: output head number k.
OutputLayer(k, fan_in, size) ==
    [index |-> k, in_features |-> fan_in, out_features |-> size,
     non_linearity |-> has_nonlinearity]

\* A tensor is the input followed by the modules it went through; a module
\* leaves its mark: what it is, which one it is, and its size.
Mark(op, k, size) == [op |-> op, id |-> k, size |-> size]

\* layer(x, context), activation(y) and out_layer(x).
ApplyLayer(layer, t) == Append(t, Mark("layer", layer.index, layer.out_features))
ApplyActivation(act, t) == Append(t, Mark(act.kind, 0, act.n))
ApplyOutput(out, t) ==
    LET y == Append(t, Mark("output_linear", out.index, out.out_features))
    IN  IF out.non_linearity THEN Append(y, Mark("non_linearity", out.index, 0))
        ELSE y

\* Line 213 with the heads taken from the last to the first.
OutputsReversed(heads, t) ==
    [k \in 1 .. Len(heads) |-> ApplyOutput(heads[Len(heads) + 1 - k], t)]

\* Line 213: [out_layer(x) for out_layer in self._output_layers].
Outputs(heads, t) == [k \in 1 .. Len(heads) |-> ApplyOutput(heads[k], t)]

\* ----------------------------------------- construction and forward: actions
ModelInit ==
    /\ kw_arg \in BOOLEAN
    /\ kw_percent_on \in PercentVals
    /\ hidden_sizes \in SeqsUpTo(HiddenSizeVals, MaxHidden)
    /\ output_size \in
           {[iterable |-> FALSE, sizes |-> <<s>>] : s \in OutputSizeVals}
           \cup {[iterable |-> TRUE, sizes |-> q] :
                    q \in SeqsUpTo(OutputSizeVals, MaxHeads)}
    /\ weight_init \in {"kaiming", "modified", "other"}
    /\ dendrite_init \in {"modified", "hardcoded"}
    /\ self_num_segments \in 0 .. MaxSegments
    /\ has_nonlinearity \in BOOLEAN
    /\ context_given \in BOOLEAN
    /\ self_kw = FALSE
    /\ layer_class = "AbsoluteMaxGatingDendriticLayer"
    /\ layers = <<>>
    /\ activations = <<>>
    /\ output_layers = <<>>
    /\ single_output_head = FALSE
    /\ input_size = 16
    /\ x = <<>>
    /\ pos = 0
    /\ result = <<>>
    /\ mpc = "init"
    /\ NoHardcoding

\* Lines 100-142: the assertions, the override of kw, the choice of the layer
\* class and the attributes.
Construct ==
    /\ mpc = "init"
    /\ IF ArgumentsAccepted
       THEN /\ self_kw' = KwAfterOverride(kw_arg, kw_percent_on)
            /\ layer_class' = (IF self_num_segments = 1
                               THEN "OneSegmentDendriticLayer"
                               ELSE layer_class)
            /\ mpc' = "layers"
       ELSE /\ mpc' = "raised"
            /\ UNCHANGED <<self_kw, layer_class>>
    /\ UNCHANGED <<kw_arg, kw_percent_on, hidden_sizes, output_size, weight_init,
                   dendrite_init, self_num_segments, has_nonlinearity, layers,
                   activations, output_layers, single_output_head, input_size,
                   context_given, x, pos, result>>
    /\ UNCHANGED hvars

\* Lines 143-185: one iteration of the loop over hidden_sizes.
AddLayer ==
    /\ mpc = "layers"
    /\ Len(layers) < Len(hidden_sizes)
    /\ LET k == Len(layers) + 1
           size == hidden_sizes[k]
       IN  IF weight_init = "modified" /\ k > 1 /\ InputSparsityRaises
           THEN /\ mpc' = "raised"
                /\ UNCHANGED <<layers, activations, input_size>>
           ELSE /\ layers' = Append(layers, DendriticLayer(k, input_size, size))
                /\ activations' = Append(activations, Activation(size))
                /\ input_size' = size
                /\ mpc' = mpc
    /\ UNCHANGED <<kw_arg, kw_percent_on, hidden_sizes, output_size, weight_init,
                   dendrite_init, self_num_segments, has_nonlinearity, self_kw,
                   layer_class, output_layers, single_output_head,
                   context_given, x, pos, result>>
    /\ UNCHANGED hvars

\* Lines 187-203: the output heads.
AddOutputLayers ==
    /\ mpc = "layers"
    /\ Len(layers) = Len(hidden_sizes)
    /\ single_output_head' = ~output_size.iterable
    /\ IF weight_init = "modified" /\ output_size.sizes # <<>>
          /\ InputSparsityRaises
       THEN /\ mpc' = "raised"
            /\ UNCHANGED output_layers
       ELSE /\ output_layers' =
                   [k \in 1 .. Len(output_size.sizes) |->
                       OutputLayer(k, input_size, output_size.sizes[k])]
            /\ mpc' = "constructed"
    /\ UNCHANGED <<kw_arg, kw_percent_on, hidden_sizes, output_size, weight_init,
                   dendrite_init, self_num_segments, has_nonlinearity, self_kw,
                   layer_class, layers, activations, input_size, context_given,
                   x, pos, result>>
    /\ UNCHANGED hvars

\* Lines 205-206: forward is called; its assertion.
Forward ==
    /\ mpc = "constructed"
    /\ IF context_given \/ self_num_segments = 0
       THEN /\ x' = <<Mark("x", 0, 16)>>
            /\ pos' = 0
            /\ mpc' = "forward"
       ELSE /\ mpc' = "raised"
            /\ UNCHANGED <<x, pos>>
    /\ UNCHANGED <<kw_arg, kw_percent_on, hidden_sizes, output_size, weight_init,
                   dendrite_init, self_num_segments, has_nonlinearity, self_kw,
                   layer_class, layers, activations, output_layers,
                   single_output_head, input_size, context_given, result>>
    /\ UNCHANGED hvars

\* Lines 207-208: one iteration of the loop over zip(_layers, _activations).
ForwardLayer ==
    /\ mpc = "forward"
    /\ pos < Len(layers) /\ pos < Len(activations)
    /\ x' = ApplyActivation(activations[pos + 1], ApplyLayer(layers[pos + 1], x))
    /\ pos' = pos + 1
    /\ UNCHANGED <<kw_arg, kw_percent_on, hidden_sizes, output_size, weight_init,
                   dendrite_init, self_num_segments, has_nonlinearity, self_kw,
                   layer_class, layers, activations, output_layers,
                   single_output_head, input_size, context_given, result, mpc>>
    /\ UNCHANGED hvars

\* Lines 210-213: the value returned.
ForwardReturn ==
    /\ mpc = "forward"
    /\ ~(pos < Len(layers) /\ pos < Len(activations))
    /\ result' = (IF single_output_head THEN ApplyOutput(output_layers[1], x)
                  ELSE Outputs(output_layers, x))
    /\ mpc' = "returned"
    /\ UNCHANGED <<kw_arg, kw_percent_on, hidden_sizes, output_size, weight_init,
                   dendrite_init, self_num_segments, has_nonlinearity, self_kw,
                   layer_class, layers, activations, output_layers,
                   single_output_head, input_size, context_given, x, pos>>
    /\ UNCHANGED hvars

ModelNext ==
    Construct \/ AddLayer \/ AddOutputLayers \/ Forward \/ ForwardLayer
    \/ ForwardReturn

SpecModel == ModelInit /\ [][ModelNext]_vars

\* ------------------------------------------ construction and forward: claims
\* __init__ has returned a model.
Constructed == mpc \in {"constructed", "forward", "returned"}

\* x after the first k dendritic layers and their activations, in
\* construction order, read off the arguments of __init__.
RECURSIVE HiddenActivation(_)
HiddenActivation(k) ==
    IF k = 0 THEN <<Mark("x", 0, 16)>>
    ELSE LET h == Append(HiddenActivation(k - 1),
                         Mark("layer", k, hidden_sizes[k]))
         IN  IF self_kw THEN Append(h, Mark("KWinners", 0, hidden_sizes[k]))
             ELSE Append(h, Mark("ReLU", 0, 0))

\* Head k, of the given size, applied to the tensor t.
HeadOutput(k, size, t) ==
    LET y == Append(t, Mark("output_linear", k, size))
    IN  IF has_nonlinearity THEN Append(y, Mark("non_linearity", k, 0)) ELSE y

\* C4: forward returns one output when output_size is an integer and a list
\* with one output per entry of output_size, in the same order, when it is an
\* iterable; every head is applied to the same final hidden activation, x
\* passed through the len(hidden_sizes) layers and activations in order.
C4_ForwardOutputs ==
    mpc = "returned" =>
        LET hidden == HiddenActivation(Len(hidden_sizes))
        IN  IF output_size.iterable
            THEN /\ ~single_output_head
                 /\ Len(result) = Len(output_size.sizes)
                 /\ \A k \in 1 .. Len(output_size.sizes) :
                        result[k] = HeadOutput(k, output_size.sizes[k], hidden)
            ELSE /\ single_output_head
                 /\ result = HeadOutput(1, output_size.sizes[1], hidden)

\* C4 witness: forward has returned a list for two heads of different sizes
\* fed by two hidden layers of different sizes.
C4_Witness ==
    /\ mpc = "returned"
    /\ output_size.iterable
    /\ Len(output_size.sizes) = 2
    /\ output_size.sizes[1] # output_size.sizes[2]
    /\ Len(hidden_sizes) = 2
    /\ hidden_sizes[1] # hidden_sizes[2]
    /\ Len(result) = 2

\* C5: in a constructed model there are len(hidden_sizes) layers and as many
\* activations, paired in order; each activation is k-Winners exactly when kw
\* is true and kw_percent_on is not 0, and otherwise every activation is ReLU
\* and self.kw is False.
C5_ActivationChoice ==
    Constructed =>
        LET kwinners == kw_arg /\ ~(~kw_percent_on.none /\ kw_percent_on.v = 0)
        IN  /\ Len(layers) = Len(hidden_sizes)
            /\ Len(activations) = Len(hidden_sizes)
            /\ \A k \in 1 .. Len(hidden_sizes) :
                   /\ layers[k].index = k
                   /\ layers[k].out_features = hidden_sizes[k]
                   /\ activations[k].kind = "KWinners" <=> kwinners
                   /\ activations[k].kind = "ReLU" <=> ~kwinners
                   /\ kwinners => activations[k].n = hidden_sizes[k]
            /\ ~kwinners => self_kw = FALSE

\* C5 witness: a model constructed with kw true and kw_percent_on 0, whose
\* two hidden layers are followed by ReLU.
C5_Witness ==
    /\ Constructed
    /\ kw_arg
    /\ ~kw_percent_on.none /\ kw_percent_on.v = 0
    /\ Len(hidden_sizes) = 2
    /\ \A k \in 1 .. 2 : activations[k].kind = "ReLU"

\* ------------------------------------------------------- the whole module
\* The two operations together.
Init == HardcodeInit \/ ModelInit
Next == HardcodeNext \/ ModelNext
Spec == Init /\ [][Next]_vars

====
